---- MODULE Spec2Model ----
(***************************************************************************)
(* Model of the semantic-sf-docs-rag MCP server and its ingestion helpers. *)
(*                                                                         *)
(* Strings are sequences of characters, so that the string operations of   *)
(* the source (split, trim, slice, replace, basename) are computed and not *)
(* assumed.                                                                *)
(***************************************************************************)
EXTENDS Integers, Sequences, FiniteSets, TLC

\* ------------------------------------------------------------------------
\* Bounds of the model
\* ------------------------------------------------------------------------
MaxMdLen == 5          \* longest markdown input given to chunkMarkdown
MaxTextLen == 1650     \* longest text given to the fixed-window chunker
MaxOverlap == 2        \* largest overlap argument given to chunkMarkdown
MaxChunkLength == 3    \* largest maxChunkLength argument given to chunkMarkdown

\* ------------------------------------------------------------------------
\* Program constants
\* ------------------------------------------------------------------------
CHUNK_SIZE == 800
OVERLAP == 100
MAX_RETRIES == 3

\* ------------------------------------------------------------------------
\* Generic helpers
\* ------------------------------------------------------------------------
Min(a, b) == IF a < b THEN a ELSE b

\* String.prototype.slice(from, to) with 0-based, non-negative arguments
Slice(s, from, to) == SubSeq(s, Min(from, Len(s)) + 1, Min(to, Len(s)))

\* String.prototype.slice(-n): a relative start of -n counts from the end,
\* but -0 is 0, so slice(-0) is the whole string
SliceNeg(s, n) ==
    IF n = 0 \/ n >= Len(s) THEN s ELSE SubSeq(s, Len(s) - n + 1, Len(s))

IsSpace(ch) == ch \in {" ", "\n"}

RECURSIVE TrimStart(_)
TrimStart(s) == IF s # << >> /\ IsSpace(Head(s)) THEN TrimStart(Tail(s)) ELSE s

RECURSIVE TrimEnd(_)
TrimEnd(s) ==
    IF s # << >> /\ IsSpace(s[Len(s)]) THEN TrimEnd(SubSeq(s, 1, Len(s) - 1)) ELSE s

\* String.prototype.trim()
Trim(s) == TrimEnd(TrimStart(s))

\* index of the first position >= i of s that does not hold a newline
RECURSIVE SkipNewlines(_, _)
SkipNewlines(s, i) ==
    IF i <= Len(s) /\ s[i] = "\n" THEN SkipNewlines(s, i + 1) ELSE i

\* markdown.split(/\n\n+/): cut at every maximal run of two or more newlines
RECURSIVE SplitParagraphsFrom(_, _, _)
SplitParagraphsFrom(s, i, cur) ==
    IF i > Len(s) THEN << cur >>
    ELSE IF s[i] = "\n" /\ i < Len(s) /\ s[i + 1] = "\n"
         THEN << cur >> \o SplitParagraphsFrom(s, SkipNewlines(s, i), << >>)
         ELSE SplitParagraphsFrom(s, i + 1, Append(cur, s[i]))

SplitParagraphs(s) == SplitParagraphsFrom(s, 1, << >>)

\* para.split(/\n/): cut at every newline
RECURSIVE SplitLinesFrom(_, _, _)
SplitLinesFrom(s, i, cur) ==
    IF i > Len(s) THEN << cur >>
    ELSE IF s[i] = "\n"
         THEN << cur >> \o SplitLinesFrom(s, i + 1, << >>)
         ELSE SplitLinesFrom(s, i + 1, Append(cur, s[i]))

SplitLines(s) == SplitLinesFrom(s, 1, << >>)


\* ------------------------------------------------------------------------
\* src/chunker.ts: chunkMarkdown
\* ------------------------------------------------------------------------
\* the parts of one paragraph: the paragraph, or its lines when it is too long
PartsOf(para, maxChunkLength) ==
    IF Len(para) > maxChunkLength THEN SplitLines(para) ELSE << para >>

RECURSIVE AllParts(_, _)
AllParts(paragraphs, maxChunkLength) ==
    IF paragraphs = << >> THEN << >>
    ELSE PartsOf(Head(paragraphs), maxChunkLength)
            \o AllParts(Tail(paragraphs), maxChunkLength)

\* the text carried from a finished chunk into the next one
CarryOver(currentChunk, overlap) == SliceNeg(currentChunk, overlap)

\* the loop over the parts; st = [chunks, currentChunk, carried]
RECURSIVE ChunkLoop(_, _, _, _)
ChunkLoop(parts, st, maxChunkLength, overlap) ==
    IF parts = << >> THEN st
    ELSE LET part == Head(parts)
             cur == st.currentChunk
             next ==
                IF Len(cur) + Len(part) + 2 > maxChunkLength /\ Len(cur) > 0
                THEN [chunks |-> Append(st.chunks, Trim(cur)),
                      currentChunk |-> CarryOver(cur, overlap) \o <<"\n", "\n">> \o part,
                      carried |-> Append(st.carried,
                                         [from |-> cur, text |-> CarryOver(cur, overlap)])]
                ELSE [st EXCEPT !.currentChunk =
                         cur \o (IF cur # << >> THEN <<"\n", "\n">> ELSE << >>) \o part]
         IN ChunkLoop(Tail(parts), next, maxChunkLength, overlap)

\* the state of chunkMarkdown when its loop is over
ChunkRun(markdown, maxChunkLength, overlap) ==
    ChunkLoop(AllParts(SplitParagraphs(markdown), maxChunkLength),
              [chunks |-> << >>, currentChunk |-> << >>, carried |-> << >>],
              maxChunkLength, overlap)

chunkMarkdown(markdown, maxChunkLength, overlap) ==
    LET st == ChunkRun(markdown, maxChunkLength, overlap)
    IN IF Len(Trim(st.currentChunk)) > 0
       THEN Append(st.chunks, Trim(st.currentChunk))
       ELSE st.chunks

\* ------------------------------------------------------------------------
\* The fixed-window chunker of scripts/ingest-pdfs.js, add_pdf_to_index and
\* scripts/download-and-ingest-sfdc-pdfs.js
\* ------------------------------------------------------------------------
\* for (let i = 0; i < text.length; i += CHUNK_SIZE - OVERLAP)
\*     chunks.push(header + text.slice(i, i + CHUNK_SIZE))
WindowStep == CHUNK_SIZE - OVERLAP

\* the loop over a text of the given length, as the arguments of its calls
\* text.slice(from, to)
RECURSIVE WindowBoundsFrom(_, _)
WindowBoundsFrom(length, i) ==
    IF i < length
    THEN << [from |-> i, to |-> i + CHUNK_SIZE] >>
            \o WindowBoundsFrom(length, i + WindowStep)
    ELSE << >>

WindowBounds(length) == WindowBoundsFrom(length, 0)

\* the chunk bodies of a text
FixedWindows(text) ==
    LET b == WindowBounds(Len(text))
    IN [j \in 1..Len(b) |-> Slice(text, b[j].from, b[j].to)]

\* ------------------------------------------------------------------------
\* Values of tool arguments: JSON values, tagged by their type
\* ------------------------------------------------------------------------
Absent == [t |-> "absent", s |-> << >>, pad |-> 0, n |-> 0]
\* a string: the tokens s followed by pad further characters
Str(tokens, padding) == [t |-> "str", s |-> tokens, pad |-> padding, n |-> 0]
Num(i) == [t |-> "int", s |-> << >>, pad |-> 0, n |-> i]
\* a number that is not an integer
Frac == [t |-> "frac", s |-> << >>, pad |-> 0, n |-> 0]
Bool(b) == [t |-> IF b THEN "true" ELSE "false", s |-> << >>, pad |-> 0, n |-> 0]

StrLen(v) == Len(v.s) + v.pad

\* JavaScript truthiness, as `!confirm` tests it
Truthy(v) ==
    CASE v.t = "absent" -> FALSE
      [] v.t = "false" -> FALSE
      [] v.t = "true" -> TRUE
      [] v.t = "str" -> StrLen(v) > 0
      [] v.t = "int" -> v.n # 0
      [] OTHER -> TRUE

\* z.string().min(lo).max(hi)
AnyString(v, lo, hi) == v.t = "str"
ZString(v, lo, hi) == v.t = "str" /\ StrLen(v) >= lo /\ StrLen(v) <= hi
\* z.number().int().min(lo).max(hi).optional().default(d): the parsed value,
\* or -1 when the value is rejected
ZIntDefault(v, lo, hi, d) ==
    CASE v.t = "absent" -> d
      [] v.t = "int" /\ v.n >= lo /\ v.n <= hi -> v.n
      [] OTHER -> -1

\* ------------------------------------------------------------------------
\* Paths and source identifiers
\* ------------------------------------------------------------------------
\* path.basename(file_path): what follows the last "/"
RECURSIVE Basename(_)
Basename(p) ==
    IF \E i \in 1..Len(p) : p[i] = "/" THEN Basename(Tail(p)) ELSE p

\* fileName.replace(/\s+/g, '_'): every run of whitespace becomes one "_"
RECURSIVE ReplaceSpaceRuns(_)
ReplaceSpaceRuns(name) ==
    IF name = << >> THEN << >>
    ELSE IF IsSpace(Head(name))
         THEN <<"_">> \o ReplaceSpaceRuns(TrimStart(name))
         ELSE << Head(name) >> \o ReplaceSpaceRuns(Tail(name))

\* the characters of ".pdf"; the match of /\.pdf$/i ignores case
DotPdf == <<".", "p", "d", "f">>
Lower(ch) ==
    CASE ch = "P" -> "p" [] ch = "D" -> "d" [] ch = "F" -> "f" [] OTHER -> ch
EndsWithPdf(name) ==
    /\ Len(name) >= Len(DotPdf)
    /\ \A i \in 1..Len(DotPdf) : Lower(name[Len(name) - Len(DotPdf) + i]) = DotPdf[i]

\* fileName.replace(/\.pdf$/i, '').replace(/_/g, ' ')
TitleOf(fileName) ==
    LET stem == IF EndsWithPdf(fileName)
                THEN SubSeq(fileName, 1, Len(fileName) - Len(DotPdf)) ELSE fileName
    IN [i \in 1..Len(stem) |-> IF stem[i] = "_" THEN " " ELSE stem[i]]

\* `file://offline/${fileName.replace(/\s+/g, '_')}`
OfflinePrefix ==
    <<"f", "i", "l", "e", ":", "/", "/", "o", "f", "f", "l", "i", "n", "e", "/">>
LocalUri(fileName) == OfflinePrefix \o ReplaceSpaceRuns(fileName)

\* ------------------------------------------------------------------------
\* The files of the model's disk
\* ------------------------------------------------------------------------
LongTextLen == 1500     \* text length of the long PDF (three windows)
ShortTextLen == 650     \* text length of the short PDFs (one window)

PathAB == <<"/", "d", "/", "a", " ", "b">> \o DotPdf      \* "/d/a b.pdf"
PathA_B == <<"/", "e", "/", "a", "_", "b">> \o DotPdf     \* "/e/a_b.pdf"
PathC == <<"/", "d", "/", "c">> \o DotPdf                \* "/d/c.pdf"
PathEmpty == <<"/", "d", "/", "e">> \o DotPdf            \* a PDF without text
PathBad == <<"/", "d", "/", "z">> \o DotPdf              \* not a PDF at all
PathGone == <<"/", "d", "/", "x">> \o DotPdf             \* no such file

\* existsSync(file_path)
ExistsSync(p) == p \in {PathAB, PathA_B, PathC, PathEmpty, PathBad}
\* pdfParse(readFileSync(file_path)) resolves for a well-formed PDF
ParsesOk(p) == p \in {PathAB, PathA_B, PathC, PathEmpty}
\* data.text.length of the parsed file ('' when the PDF holds no text)
TextLenOf(p) ==
    CASE p = PathAB -> LongTextLen
      [] p \in {PathA_B, PathC} -> ShortTextLen
      [] OTHER -> 0

\* a chunk string `Source: ${title}\nURL: ${localUri}\n\n${text.slice(from, to)}`
\* of the text of file p; the body is kept as the slice it is
ChunkString(title, uri, p, w) ==
    [title |-> title, url |-> uri, file |-> p, from |-> w.from,
     to |-> Min(w.to, TextLenOf(p))]

\* the chunk list add_pdf_to_index builds for file p
ChunkListOf(p) ==
    LET fileName == Basename(p)
        w == WindowBounds(TextLenOf(p))
    IN [j \in 1..Len(w) |-> ChunkString(TitleOf(fileName), LocalUri(fileName), p, w[j])]

\* ------------------------------------------------------------------------
\* Embeddings: vectors of two integer coordinates; a vector of length 5
\* stands for a unit vector
\* ------------------------------------------------------------------------
Dot(a, b) == a[1] * b[1] + a[2] * b[2]
Norm(v) == CHOOSE n \in 0..(Dot(v, v)) : n * n = Dot(v, v)

\* mean pooling of the model's token states, before normalisation: the same
\* text always yields the same vector. The texts of the model lie in three
\* directions: the queries and the first two chunks of the long file in
\* one, the last chunk of the long file and the short file "a_b" in
\* another, the file "c" and the longest query in a third
Pooled(text) ==
    IF "t" \in DOMAIN text
    THEN IF Len(text.s) + text.pad >= 1000 THEN <<8, 6>> ELSE <<3, 4>>
    ELSE CASE text.file = PathC -> <<8, 6>>
           [] text.file = PathA_B -> <<0, 5>>
           [] text.from >= 2 * WindowStep -> <<0, 5>>
           [] OTHER -> <<3, 4>>

\* a pipeline without { normalize: true }
Unscaled(v) == v

\* { pooling: 'mean', normalize: true }: the output scaled to unit length
Normalize(v) == << (v[1] * 5) \div Norm(v), (v[2] * 5) \div Norm(v) >>

\* embedder(text, { pooling: 'mean', normalize: true }).data
embedder(text) == Normalize(Pooled(text))

\* vec0 KNN metric of a float[384] column without distance_metric: L2
\* (compared by its square)
L2Sq(a, q) == Dot(<<a[1] - q[1], a[2] - q[2]>>, <<a[1] - q[1], a[2] - q[2]>>)

\* vec_distance_cosine(a, q) <= vec_distance_cosine(b, q), with
\* vec_distance_cosine(x, q) = 1 - x.q / (|x| |q|)
CosineLeq(a, b, q) == Dot(a, q) * Norm(b) >= Dot(b, q) * Norm(a)

\* vec_distance_cosine(a, q) in thousandths, rounded down
CosineDistance(a, q) ==
    ((Norm(a) * Norm(q) - Dot(a, q)) * 1000) \div (Norm(a) * Norm(q))

\* ------------------------------------------------------------------------
\* State
\* ------------------------------------------------------------------------
MaxRowid == 3           \* rows the chunks table is given in one run

Calls == {1, 2}         \* request slots of the server process

VARIABLES
    version,            \* server build: "2.0.0" (src/index.ts) or "2.1.0"
    strictTx,           \* better-sqlite3 build: its transaction wrapper rejects
                        \* a function that returns a promise
    db,                 \* [chunks, vec_chunks, sqlite_sequence, last_insert_rowid]
    embeddingPipeline,  \* "null" or "loaded"
    serverUp,           \* the server process is running
    call,               \* per request slot: the handler invocation
    response,           \* the response the last step sent, if it sent one
    client,             \* "sequential": one request at a time; "concurrent"
    pure                \* input and output of the pure functions under check

vars == << version, strictTx, db, embeddingPipeline, serverUp, call, response, client, pure >>

\* ------------------------------------------------------------------------
\* db/index.ts: the two tables
\* ------------------------------------------------------------------------
\* CREATE TABLE chunks (rowid INTEGER PRIMARY KEY AUTOINCREMENT, source, text_chunk)
\* CREATE VIRTUAL TABLE vec_chunks USING vec0(embedding float[384])
EmptyTable == [r \in {} |-> 0]

EmptyDb ==
    [chunks |-> EmptyTable, vec_chunks |-> EmptyTable,
     sqlite_sequence |-> 0, last_insert_rowid |-> 0]

Rowids(table) == DOMAIN table

\* INSERT INTO chunks (source, text_chunk) VALUES (?, ?)
\* AUTOINCREMENT: the new rowid is one more than the largest ever used
insertChunk(d, source, text_chunk) ==
    LET rowid == d.sqlite_sequence + 1
    IN [d EXCEPT !.chunks = [r \in Rowids(d.chunks) \cup {rowid} |->
                                IF r = rowid
                                THEN [source |-> source, text_chunk |-> text_chunk]
                                ELSE d.chunks[r]],
                 !.sqlite_sequence = rowid,
                 !.last_insert_rowid = rowid]

\* INSERT INTO vec_chunks(rowid, embedding) VALUES (last_insert_rowid(), ?)
insertVec(d, embedding) ==
    [d EXCEPT !.vec_chunks = [r \in Rowids(d.vec_chunks) \cup {d.last_insert_rowid} |->
                                 IF r = d.last_insert_rowid THEN embedding
                                 ELSE d.vec_chunks[r]]]

\* SELECT rowid FROM chunks WHERE source = ?
RowidsOfSource(d, source) == { r \in Rowids(d.chunks) : d.chunks[r].source = source }

\* SELECT COUNT(*) as n FROM chunks WHERE source = ?
CountSource(d, source) == Cardinality(RowidsOfSource(d, source))

\* a statement that deletes nothing
KeepRows(d, source) == d

\* DELETE FROM vec_chunks WHERE rowid IN (SELECT rowid FROM chunks WHERE source = ?)
deleteVecsOfSource(d, source) ==
    [d EXCEPT !.vec_chunks =
        [r \in Rowids(d.vec_chunks) \ RowidsOfSource(d, source) |-> d.vec_chunks[r]]]

\* a statement that deletes one row of the source only
DeleteOneRow(d, source) ==
    LET rows == RowidsOfSource(d, source)
        first == IF rows = {} THEN {} ELSE { CHOOSE r \in rows : \A o \in rows : r <= o }
    IN [d EXCEPT !.chunks = [r \in Rowids(d.chunks) \ first |-> d.chunks[r]]]

\* DELETE FROM chunks WHERE source = ?
deleteChunksOfSource(d, source) ==
    [d EXCEPT !.chunks =
        [r \in Rowids(d.chunks) \ RowidsOfSource(d, source) |-> d.chunks[r]]]

\* ------------------------------------------------------------------------
\* semantic_search_docs: the search statement
\* ------------------------------------------------------------------------
\* WHERE vec_chunks.embedding MATCH ? AND k = ?: the vec0 KNN scan yields k
\* rows of vec_chunks nearest to the query vector (all rows when there are
\* fewer); which of several equally near rows it yields is not specified
\* a scan that does not apply k
KnnAllRows(d, q, k) == { Rowids(d.vec_chunks) }

KnnSets(d, q, k) ==
    LET all == Rowids(d.vec_chunks)
    IN { K \in SUBSET all :
            /\ Cardinality(K) = Min(k, Cardinality(all))
            /\ \A x \in K : \A y \in all \ K :
                  L2Sq(d.vec_chunks[x], q) <= L2Sq(d.vec_chunks[y], q) }

\* one result row: source, text_chunk and distance are the selected columns;
\* rowid is kept to tell the rows apart
ResultRow(d, r, q) ==
    [rowid |-> r, source |-> d.chunks[r].source, text_chunk |-> d.chunks[r].text_chunk,
     distance |-> CosineDistance(d.vec_chunks[r], q)]

\* ORDER BY distance ASC, distance being the alias of vec_distance_cosine(...):
\* every order of the rows S in which the cosine distance never decreases
RECURSIVE OrderByDistance(_, _, _)
OrderByDistance(d, S, q) ==
    IF S = {} THEN { << >> }
    ELSE UNION { { << ResultRow(d, m, q) >> \o rest : rest \in OrderByDistance(d, S \ {m}, q) } :
                 m \in { x \in S : \A y \in S :
                            CosineLeq(d.vec_chunks[x], d.vec_chunks[y], q) } }

\* FROM vec_chunks JOIN chunks ON chunks.rowid = vec_chunks.rowid
\* WHERE vec_chunks.embedding MATCH ? AND k = ? ORDER BY distance ASC
SearchStmtAll(d, q, k) ==
    UNION { OrderByDistance(d, K \cap Rowids(d.chunks), q) : K \in KnnSets(d, q, k) }

\* ------------------------------------------------------------------------
\* Handler invocations
\* ------------------------------------------------------------------------
NoArgs ==
    [file_path |-> Absent, source |-> Absent, confirm |-> Absent,
     query |-> Absent, k |-> Absent, limit |-> Absent]

\* a handler invocation between two awaits
IdleCall ==
    [tool |-> "none", pc |-> "idle", args |-> NoArgs,
     k |-> 0, localUri |-> << >>, chunkList |-> << >>, indexed |-> 0,
     detached |-> FALSE, wrote |-> FALSE]

NewCall(tool, args) == [IdleCall EXCEPT !.tool = tool, !.args = args, !.pc = "entry"]

\* a tool result { content: [...], isError? } with the invocation it answers:
\* kind names the message, n the number it reports, rows the rows it lists;
\* queryEmbedding is the embedding a search ran with
NoResponse ==
    [slot |-> 0, tool |-> "none", args |-> NoArgs, isError |-> FALSE, kind |-> "none",
     n |-> 0, rows |-> << >>, k |-> 0, queryEmbedding |-> <<0, 0>>,
     localUri |-> << >>, wrote |-> FALSE, matchedSource |-> << >>, fuzzy |-> FALSE]

Result(isError, kind, n, rows) ==
    [NoResponse EXCEPT !.isError = isError, !.kind = kind, !.n = n, !.rows = rows]

\* a thrown exception, as the catch block returns it
Caught(kind) == Result(TRUE, kind, 0, << >>)

ResponseTo(c, inv, result) ==
    [result EXCEPT !.slot = c, !.tool = inv.tool, !.args = inv.args, !.k = inv.k,
                   !.localUri = inv.localUri, !.wrote = inv.wrote]

\* the process is up and the transport has written out the last response
Running == serverUp /\ response = NoResponse

\* the slot is free for a new request
Free(c) == call[c].pc = "idle"

\* a request arrives in the first free slot; the client of a sequential run
\* waits for each answer before it sends the next request
Admit(c) ==
    /\ Running
    /\ Free(c)
    /\ \A o \in Calls : o < c => ~Free(o)
    /\ client = "sequential" => \A o \in Calls : Free(o) \/ call[o].detached

\* the handler returns a result and its invocation is over
Respond(c, inv, result) ==
    /\ call' = [call EXCEPT ![c] = IdleCall]
    /\ response' = ResponseTo(c, inv, result)

\* the handler goes on to its next await
Await(c, inv, pc) ==
    /\ call' = [call EXCEPT ![c] = [inv EXCEPT !.pc = pc]]
    /\ response' = NoResponse

\* getEmbedder(): the cached pipeline, or a load that can fail
GetEmbedderOk == embeddingPipeline' = "loaded"
GetEmbedderCanFail == embeddingPipeline = "null"

\* ------------------------------------------------------------------------
\* Arguments the model's client sends
\* ------------------------------------------------------------------------
QueryArgs ==
    { Absent, Str(<< >>, 0), Str(<<"q">>, 0), Str(<<"q">>, 999), Str(<<"q">>, 1000) }
KArgs ==
    { Absent, Num(0), Num(1), Num(2), Num(20), Num(21), Frac, Str(<<"3">>, 0) }
\* every k with the one-character query, every query without k
SearchArgs ==
    { [query |-> Str(<<"q">>, 0), k |-> k] : k \in KArgs }
        \cup { [query |-> query, k |-> Absent] : query \in QueryArgs }
PathArgs ==
    { Absent, Str(<< >>, 0) }
        \cup { Str(p, 0) : p \in {PathAB, PathA_B, PathC, PathEmpty, PathBad, PathGone} }
SourceArgs ==
    { Str(LocalUri(Basename(p)), 0) : p \in {PathAB, PathC, PathGone} }
LimitArgs ==
    { Absent, Num(0), Num(1), Num(100), Num(101), Frac }
\* every limit with an exact source, every source without limit
GetSourceArgs ==
    { [source |-> Str(LocalUri(Basename(PathAB)), 0), limit |-> limit] : limit \in LimitArgs }
        \cup { [source |-> source, limit |-> Absent]
                : source \in SourceArgs
                     \cup { Absent, Str(<< >>, 0), Str(<<"a", "_", "b">>, 0), Str(<<"%">>, 0),
                            Str(<<"c", "_", "p", "d", "f">>, 0), Str(<<"\\">>, 0) } }
ConfirmArgs ==
    { Absent, Bool(TRUE), Bool(FALSE), Str(<<"f", "a", "l", "s", "e">>, 0), Num(1), Num(0) }

\* ------------------------------------------------------------------------
\* semantic_search_docs
\* ------------------------------------------------------------------------
\* SearchDocsSchema.parse(args), then `await getEmbedder()`
CallSearch(c, query, k) ==
    LET parsedK == ZIntDefault(k, 1, 20, 5)
        inv == NewCall("semantic_search_docs", [NoArgs EXCEPT !.query = query, !.k = k])
    IN /\ Admit(c)
       /\ IF ZString(query, 1, 1000) /\ parsedK # -1
          THEN Await(c, [inv EXCEPT !.k = parsedK], "search_getEmbedder")
          ELSE Respond(c, inv, Caught("zod_error"))
       /\ UNCHANGED << version, strictTx, db, embeddingPipeline, serverUp, client, pure >>

\* getEmbedder() settles, then `await embedder(query, ...)`
SearchGetEmbedder(c) ==
    /\ Running
    /\ call[c].pc = "search_getEmbedder"
    /\ \/ GetEmbedderOk /\ Await(c, call[c], "search_embed")
       \/ /\ GetEmbedderCanFail
          /\ UNCHANGED embeddingPipeline
          /\ Respond(c, call[c], Caught("exception"))
    /\ UNCHANGED << version, strictTx, db, serverUp, client, pure >>

\* embedder(query) settles; the statement runs and the handler returns
SearchRun(c) ==
    /\ Running
    /\ call[c].pc = "search_embed"
    /\ \/ LET q == embedder(call[c].args.query)
          IN \E results \in SearchStmtAll(db, q, call[c].k) :
               Respond(c, call[c],
                       [(IF Len(results) = 0
                         THEN Result(FALSE, "no_results", 0, << >>)
                         ELSE Result(FALSE, "results", Len(results), results))
                        EXCEPT !.queryEmbedding = q])
       \/ Respond(c, call[c], Caught("exception"))
    /\ UNCHANGED << version, strictTx, db, embeddingPipeline, serverUp, client, pure >>

\* ------------------------------------------------------------------------
\* get_source_content
\* ------------------------------------------------------------------------
\* a pattern built from the source as it was given
Unescaped(source) == source

\* source.replace(/\\/g, '\\\\').replace(/%/g, '\\%').replace(/_/g, '\\_')
RECURSIVE EscapeLike(_)
EscapeLike(source) ==
    IF source = << >> THEN << >>
    ELSE (IF Head(source) \in {"\\", "%", "_"} THEN <<"\\", Head(source)>> ELSE <<Head(source)>>)
            \o EscapeLike(Tail(source))

\* SQLite's `str LIKE pattern [ESCAPE '\']`: % matches any run of characters,
\* _ any one character, an escaped character only itself
RECURSIVE Like(_, _, _)
Like(str, pattern, escape) ==
    IF pattern = << >> THEN str = << >>
    ELSE IF escape /\ Head(pattern) = "\\" /\ Len(pattern) >= 2
    THEN str # << >> /\ Head(str) = pattern[2] /\ Like(Tail(str), Tail(Tail(pattern)), escape)
    ELSE IF Head(pattern) = "%"
    THEN \E i \in 0..Len(str) : Like(SubSeq(str, i + 1, Len(str)), Tail(pattern), escape)
    ELSE IF Head(pattern) = "_"
    THEN str # << >> /\ Like(Tail(str), Tail(pattern), escape)
    ELSE str # << >> /\ Lower(Head(str)) = Lower(Head(pattern))
              /\ Like(Tail(str), Tail(pattern), escape)

\* a statement that yields no row
NoRows(S, limit) == << >>

\* the rowids of S in ascending order, cut at limit
RECURSIVE ByRowidLimit(_, _)
ByRowidLimit(S, limit) ==
    IF S = {} \/ limit = 0 THEN << >>
    ELSE LET r == CHOOSE x \in S : \A y \in S : x <= y
         IN <<r>> \o ByRowidLimit(S \ {r}, limit - 1)

\* SELECT ... FROM chunks WHERE source LIKE ? [ESCAPE '\']
RowidsLike(d, pattern, escape) ==
    { r \in Rowids(d.chunks) : Like(d.chunks[r].source, pattern, escape) }

ContentRows(d, rowids) ==
    [i \in 1..Len(rowids) |->
        [rowid |-> rowids[i], source |-> d.chunks[rowids[i]].source,
         text_chunk |-> d.chunks[rowids[i]].text_chunk, distance |-> 0]]

\* v2.1.0: the exact match, else the escaped LIKE; the source named in the
\* heading is that of the first row SELECT DISTINCT yields
GetContent210(d, source, limit) ==
    LET exact == ByRowidLimit(RowidsOfSource(d, source), limit)
        pattern == <<"%">> \o EscapeLike(source) \o <<"%">>
        like == RowidsLike(d, pattern, TRUE)
        rowids == IF Len(exact) > 0 THEN exact ELSE ByRowidLimit(like, limit)
        matched == IF Len(exact) > 0 \/ like = {} THEN {source}
                   ELSE { d.chunks[r].source : r \in like }
    IN { [Result(FALSE, IF Len(rowids) = 0 THEN "no_chunks_found" ELSE "content",
                 Len(rowids), ContentRows(d, rowids))
          EXCEPT !.matchedSource = m, !.fuzzy = (Len(exact) = 0 /\ Len(rowids) > 0)]
         : m \in matched }

\* v2.0.0: one LIKE with the source as it was given, rows in table order
GetContent200(d, source, limit) ==
    LET rowids == ByRowidLimit(RowidsLike(d, <<"%">> \o source \o <<"%">>, FALSE), limit)
    IN { [Result(FALSE, IF Len(rowids) = 0 THEN "no_chunks_found" ELSE "content",
                 Len(rowids), ContentRows(d, rowids))
          EXCEPT !.matchedSource = source] }

\* GetSourceContentSchema.parse(args) and the synchronous statements
CallGetSourceContent(c, source, limit) ==
    LET parsedLimit == ZIntDefault(limit, 1, 100, 20)
        inv == NewCall("get_source_content",
                       [NoArgs EXCEPT !.source = source, !.limit = limit])
    IN /\ Admit(c)
       /\ IF ZString(source, 1, StrLen(source)) /\ parsedLimit # -1
          THEN \E result \in (IF version = "2.1.0"
                               THEN GetContent210(db, source.s, parsedLimit)
                               ELSE GetContent200(db, source.s, parsedLimit)) :
                 Respond(c, [inv EXCEPT !.k = parsedLimit], result)
          ELSE Respond(c, inv, Caught("zod_error"))
       /\ UNCHANGED << version, strictTx, db, embeddingPipeline, serverUp, client, pure >>

\* ------------------------------------------------------------------------
\* add_pdf_to_index
\* ------------------------------------------------------------------------
\* AddPdfSchema.parse(args), then `await import('fs')`
CallAdd(c, file_path) ==
    LET inv == NewCall("add_pdf_to_index", [NoArgs EXCEPT !.file_path = file_path])
    IN /\ Admit(c)
       /\ IF ZString(file_path, 1, StrLen(file_path))
          THEN Await(c, inv, "add_imports")
          ELSE Respond(c, inv, Caught("zod_error"))
       /\ UNCHANGED << version, strictTx, db, embeddingPipeline, serverUp, client, pure >>

\* a handler without the deduplication check
NeverIndexed(uri) == FALSE

\* v2.1.0 only: the deduplication check finds chunks of the source
AlreadyIndexed(uri) == version = "2.1.0" /\ CountSource(db, uri) > 0

\* existsSync, (v2.1.0) the deduplication check, readFileSync, `await pdfParse`
AddCheck(c) ==
    LET p == call[c].args.file_path.s
        uri == LocalUri(Basename(p))
        inv == [call[c] EXCEPT !.localUri = uri]
    IN /\ Running
       /\ call[c].pc = "add_imports"
       /\ IF ~ExistsSync(p)
          THEN Respond(c, call[c], Result(TRUE, "file_not_found", 0, << >>))
          ELSE IF AlreadyIndexed(uri)
               THEN Respond(c, inv, Result(FALSE, "already_indexed", CountSource(db, uri), << >>))
               ELSE Await(c, inv, "add_parse")
       /\ UNCHANGED << version, strictTx, db, embeddingPipeline, serverUp, client, pure >>

\* pdfParse settles; the chunk list is built, then `await getEmbedder()`
AddParsed(c) ==
    LET p == call[c].args.file_path.s
    IN /\ Running
       /\ call[c].pc = "add_parse"
       /\ IF ParsesOk(p)
          THEN Await(c, [call[c] EXCEPT !.chunkList = ChunkListOf(p)], "add_getEmbedder")
          ELSE Respond(c, call[c], Caught("exception"))
       /\ UNCHANGED << version, strictTx, db, embeddingPipeline, serverUp, client, pure >>

\* db.transaction(async fn)(chunks): better-sqlite3 runs BEGIN, calls fn and
\* ends the transaction when fn returns. An async fn returns its promise at
\* its first await, before any row is written (or with nothing to write):
\*   - a build that does not look at the returned value runs COMMIT and hands
\*     the promise back, which the handler awaits;
\*   - a build that rejects promises runs ROLLBACK and throws TypeError, which
\*     the handler's catch returns, while fn goes on running on its own.
\* Either way every later insert of fn runs outside the transaction.
\* v2.0.0 has no transaction and runs the same loop in the handler.
TxThrows == version = "2.1.0" /\ strictTx

\* getEmbedder() settles; the statements are prepared and the ingest starts
AddGetEmbedder(c) ==
    /\ Running
    /\ call[c].pc = "add_getEmbedder"
    /\ \/ /\ GetEmbedderOk
          /\ IF call[c].chunkList = << >>
             THEN Respond(c, call[c], IF TxThrows THEN Caught("tx_promise")
                                      ELSE Result(FALSE, "indexed", 0, << >>))
             ELSE IF TxThrows
                  THEN /\ call' = [call EXCEPT ![c].detached = TRUE, ![c].pc = "add_embed"]
                       /\ response' = ResponseTo(c, call[c], Caught("tx_promise"))
                  ELSE Await(c, call[c], "add_embed")
       \/ /\ GetEmbedderCanFail
          /\ UNCHANGED embeddingPipeline
          /\ Respond(c, call[c], Caught("exception"))
    /\ UNCHANGED << version, strictTx, db, serverUp, client, pure >>

\* embedder(chunk) resolves: insertChunk.run, insertVec.run, indexed++; after
\* the last chunk the loop ends and the handler returns its success message
AddEmbedInsert(c) ==
    LET inv == call[c]
        n == inv.indexed + 1
        after == [inv EXCEPT !.indexed = n, !.wrote = TRUE]
    IN /\ Running
       /\ inv.pc = "add_embed"
       /\ db.sqlite_sequence < MaxRowid
       /\ db' = insertVec(insertChunk(db, inv.localUri, inv.chunkList[n]),
                           embedder(inv.chunkList[n]))
       /\ IF n < Len(inv.chunkList)
          THEN Await(c, after, "add_embed")
          ELSE IF inv.detached
               THEN Await(c, IdleCall, "idle")
               ELSE Respond(c, after, Result(FALSE, "indexed", n, << >>))
       /\ UNCHANGED << version, strictTx, embeddingPipeline, serverUp, client, pure >>

\* embedder(chunk) rejects: the handler's catch returns the error; in a
\* detached ingest nobody handles the rejection and the process ends
AddEmbedFail(c) ==
    /\ Running
    /\ call[c].pc = "add_embed"
    /\ IF call[c].detached
       THEN /\ serverUp' = FALSE
            /\ Await(c, IdleCall, "idle")
       ELSE /\ UNCHANGED serverUp
            /\ Respond(c, call[c], Caught("exception"))
    /\ UNCHANGED << version, strictTx, db, embeddingPipeline, client, pure >>

\* ------------------------------------------------------------------------
\* delete_source (v2.1.0)
\* ------------------------------------------------------------------------
CallDelete(c, source, confirm) ==
    LET inv == NewCall("delete_source", [NoArgs EXCEPT !.source = source, !.confirm = confirm])
        n == CountSource(db, source.s)
    IN /\ Admit(c)
       /\ IF version = "2.0.0"
          THEN Respond(c, inv, Result(TRUE, "unknown_tool", 0, << >>)) /\ UNCHANGED db
          ELSE IF ~Truthy(confirm)
               THEN Respond(c, inv, Result(TRUE, "confirm_required", 0, << >>)) /\ UNCHANGED db
               ELSE IF n = 0
                    THEN Respond(c, inv, Result(TRUE, "no_chunks", 0, << >>)) /\ UNCHANGED db
                    ELSE /\ db' = deleteChunksOfSource(deleteVecsOfSource(db, source.s), source.s)
                         /\ Respond(c, [inv EXCEPT !.wrote = TRUE],
                                    Result(FALSE, "deleted", n, << >>))
       /\ UNCHANGED << version, strictTx, embeddingPipeline, serverUp, client, pure >>

\* ------------------------------------------------------------------------
\* list_doc_sources
\* ------------------------------------------------------------------------
\* a COUNT(*) that counts every group as one row
CountOneEach(d, source) == 1

\* COUNT(*) as chunk_count of the group of a source
ChunkCountOf(d, source) ==
    Cardinality({ r \in Rowids(d.chunks) : d.chunks[r].source = source })

\* SELECT source, COUNT(*) as chunk_count FROM chunks GROUP BY source
\* ORDER BY chunk_count DESC: every order of the groups S in which the count
\* never increases
RECURSIVE OrderByCountDesc(_, _)
OrderByCountDesc(d, S) ==
    IF S = {} THEN { << >> }
    ELSE UNION { { << [source |-> m, chunk_count |-> ChunkCountOf(d, m)] >> \o rest
                       : rest \in OrderByCountDesc(d, S \ {m}) }
                 : m \in { x \in S : \A y \in S :
                              ChunkCountOf(d, x) >= ChunkCountOf(d, y) } }

\* the two statements of list_doc_sources and its answer; n is total.n
CallListSources(c) ==
    LET sources == { db.chunks[r].source : r \in Rowids(db.chunks) }
        total == Cardinality(Rowids(db.chunks))
    IN /\ Admit(c)
       /\ \E rows \in OrderByCountDesc(db, sources) :
            Respond(c, NewCall("list_doc_sources", NoArgs),
                    IF Len(rows) = 0
                    THEN Result(FALSE, "no_documents", 0, << >>)
                    ELSE Result(FALSE, "sources", total, rows))
       /\ UNCHANGED << version, strictTx, db, embeddingPipeline, serverUp, client, pure >>

\* ------------------------------------------------------------------------
\* Requests without an arguments object, and unknown tools
\* ------------------------------------------------------------------------
ArgumentTools ==
    { "semantic_search_docs", "get_source_content", "add_pdf_to_index", "delete_source" }

\* request.params.arguments is undefined: Schema.parse(undefined) throws a
\* ZodError, the destructuring in delete_source a TypeError
CallNoArguments(c, name) ==
    /\ Admit(c)
    /\ Respond(c, NewCall(name, NoArgs),
               IF name = "delete_source"
               THEN IF version = "2.0.0" THEN Result(TRUE, "unknown_tool", 0, << >>)
                    ELSE Caught("exception")
               ELSE Caught("zod_error"))
    /\ UNCHANGED << version, strictTx, db, embeddingPipeline, serverUp, client, pure >>

\* the transport writes the response to the client
SendResponse ==
    /\ response # NoResponse
    /\ response' = NoResponse
    /\ UNCHANGED << version, strictTx, db, embeddingPipeline, serverUp, call, client, pure >>

\* a tool name the handler does not know
CallUnknown(c) ==
    /\ Admit(c)
    /\ Respond(c, NewCall("other", NoArgs), Result(TRUE, "unknown_tool", 0, << >>))
    /\ UNCHANGED << version, strictTx, db, embeddingPipeline, serverUp, client, pure >>

\* ------------------------------------------------------------------------
\* The server
\* ------------------------------------------------------------------------
NoPure == [op |-> "none"]

ServerInit ==
    /\ version \in {"2.0.0", "2.1.0"}
    /\ strictTx \in (IF version = "2.1.0" THEN BOOLEAN ELSE {FALSE})
    /\ db = EmptyDb
    /\ embeddingPipeline = "null"
    /\ serverUp = TRUE
    /\ call = [c \in Calls |-> IdleCall]
    /\ response = NoResponse
    /\ pure = NoPure

Init == ServerInit /\ client = "sequential"

Next ==
    \/ SendResponse
    \/ \E c \in Calls :
            \/ \E a \in SearchArgs : CallSearch(c, a.query, a.k)
            \/ SearchGetEmbedder(c)
            \/ SearchRun(c)
            \/ \E a \in GetSourceArgs : CallGetSourceContent(c, a.source, a.limit)
            \/ \E file_path \in PathArgs : CallAdd(c, file_path)
            \/ AddCheck(c)
            \/ AddParsed(c)
            \/ AddGetEmbedder(c)
            \/ AddEmbedInsert(c)
            \/ AddEmbedFail(c)
            \/ \E source \in SourceArgs, confirm \in ConfirmArgs : CallDelete(c, source, confirm)
            \/ CallListSources(c)
            \/ \E name \in ArgumentTools : CallNoArguments(c, name)
            \/ CallUnknown(c)

Spec == Init /\ [][Next]_vars

\* ------------------------------------------------------------------------
\* The v2.1.0 server with a client that does not wait for an answer before
\* it sends the next request: the handler invocations interleave at their
\* awaits. client = "two_adds": add_pdf_to_index requests only;
\* client = "add_delete": one add_pdf_to_index at a time, and delete_source
\* requests with confirm = true
\* ------------------------------------------------------------------------
ConcInit == ServerInit /\ version = "2.1.0" /\ client \in {"two_adds", "add_delete"}

ConcNext ==
    \/ SendResponse
    \/ \E c \in Calls :
            \/ \E file_path \in {Str(PathAB, 0), Str(PathC, 0)} :
                  /\ client = "add_delete" =>
                        \A o \in Calls : call[o].tool # "add_pdf_to_index"
                  /\ CallAdd(c, file_path)
            \/ AddCheck(c)
            \/ AddParsed(c)
            \/ AddGetEmbedder(c)
            \/ AddEmbedInsert(c)
            \/ AddEmbedFail(c)
            \/ \E source \in SourceArgs :
                  /\ client = "add_delete"
                  /\ CallDelete(c, source, Bool(TRUE))

ConcSpec == ConcInit /\ [][ConcNext]_vars

\* ------------------------------------------------------------------------
\* The chunkers on their own: the inputs are drawn at the start, the one
\* step is the call
\* ------------------------------------------------------------------------
ServerIdle ==
    /\ version = "2.1.0"
    /\ strictTx = FALSE
    /\ db = EmptyDb
    /\ embeddingPipeline = "null"
    /\ serverUp = FALSE
    /\ call = [c \in Calls |-> IdleCall]
    /\ response = NoResponse
    /\ client = "none"

ServerUnchanged ==
    UNCHANGED << version, strictTx, db, embeddingPipeline, serverUp, call, response, client >>

\* the strings of at most n characters over an alphabet
RECURSIVE StringsUpTo(_, _)
StringsUpTo(alphabet, n) ==
    IF n = 0 THEN { << >> }
    ELSE LET shorter == StringsUpTo(alphabet, n - 1)
         IN shorter \cup { Append(t, ch) : t \in shorter, ch \in alphabet }

MarkdownInputs == StringsUpTo({"a", " ", "\n"}, MaxMdLen)

ChunkerInit ==
    /\ ServerIdle
    /\ pure \in [op : {"chunkMarkdown"}, markdown : MarkdownInputs,
                  maxChunkLength : 2..MaxChunkLength, overlap : 0..MaxOverlap,
                  done : {FALSE}, chunks : {<< >>}, carried : {<< >>}]

\* chunkMarkdown(markdown, maxChunkLength, overlap)
CallChunkMarkdown ==
    /\ pure.op = "chunkMarkdown"
    /\ ~pure.done
    /\ pure' = [pure EXCEPT
                   !.done = TRUE,
                   !.chunks = chunkMarkdown(pure.markdown, pure.maxChunkLength, pure.overlap),
                   !.carried = ChunkRun(pure.markdown, pure.maxChunkLength,
                                        pure.overlap).carried]
    /\ ServerUnchanged

ChunkerNext == CallChunkMarkdown

ChunkerSpec == ChunkerInit /\ [][ChunkerNext]_vars

\* a text of the given length whose characters are all different
TextOfLength(length) == [i \in 1..length |-> i]

WindowInit ==
    /\ ServerIdle
    /\ pure \in [op : {"fixedWindows"}, text : { TextOfLength(l) : l \in 0..MaxTextLen },
                  done : {FALSE}, chunks : {<< >>}]

\* the chunk loop applied to pure.text
CallFixedWindows ==
    /\ pure.op = "fixedWindows"
    /\ ~pure.done
    /\ pure' = [pure EXCEPT !.done = TRUE, !.chunks = FixedWindows(pure.text)]
    /\ ServerUnchanged

WindowNext == CallFixedWindows

WindowSpec == WindowInit /\ [][WindowNext]_vars

\* ------------------------------------------------------------------------
\* scripts/download-and-ingest-sfdc-pdfs.js ("current") and its older
\* version ("older"): the run over the curated list PDFS
\* ------------------------------------------------------------------------
MaxRuns == 2            \* runs of the script in a row

\* the curated list: the file names stand for their entries { file, label }
PDFS == << <<"a", ".", "p", "d", "f">>, <<"b", ".", "p", "d", "f">>, <<"c", ".", "p", "d", "f">> >>

SfdcPrefix ==
    <<"f", "i", "l", "e", ":", "/", "/", "s", "f", "d", "c", "-", "o", "f", "f", "i", "c",
      "i", "a", "l", "/">>

\* `file://sfdc-official/${filename}`
SfdcUri(filename) == SfdcPrefix \o filename

\* data.text.length of the downloaded PDF: two windows, one window, and a
\* text the scripts take for empty
SfdcTextLen(filename) ==
    CASE filename = PDFS[1] -> CHUNK_SIZE + OVERLAP
      [] filename = PDFS[2] -> CHUNK_SIZE \div 2
      [] OTHER -> OVERLAP \div 2

\* text.length < 200 (current), < 100 (older): the PDF is given up as empty
MinTextLen(script) == IF script = "current" THEN 200 ELSE 100

\* the chunk strings of a downloaded PDF
SfdcChunkList(filename) ==
    LET w == WindowBounds(SfdcTextLen(filename))
    IN [j \in 1..Len(w) |->
          [title |-> TitleOf(filename), url |-> SfdcUri(filename), file |-> filename,
           from |-> w[j].from, to |-> Min(w[j].to, SfdcTextLen(filename))]]

\* a result of SELECT DISTINCT source that is always empty
NoSources(d) == {}

\* new Set(db.prepare('SELECT DISTINCT source FROM chunks').all().map(r => r.source))
ExistingSources(d) == { d.chunks[r].source : r \in Rowids(d.chunks) }

\* the counts of the store when a run starts, kept to compare with
CountsOf(d) == [i \in 1..Len(PDFS) |-> CountSource(d, SfdcUri(PDFS[i]))]

DownloadInit ==
    /\ ServerIdle
    /\ pure \in [op : {"download"}, script : {"current", "older"}, run : {1}, pc : {"start"},
                  existingSources : {{}}, i : {0}, success : {0}, skipped : {0},
                  failed : {0}, notFound : {0}, chunks : {<< >>}, embeddings : {<< >>},
                  downloaded : {{}}, atStart : {CountsOf(EmptyDb)}]

ScriptUnchanged ==
    UNCHANGED << version, strictTx, embeddingPipeline, serverUp, call, response, client >>

\* the script up to its main loop: the tables, existingSources, the model load
DownloadStart ==
    /\ pure.op = "download" /\ pure.pc = "start"
    /\ \/ pure' = [pure EXCEPT !.pc = "loop", !.existingSources = ExistingSources(db),
                                !.i = 0, !.success = 0, !.skipped = 0, !.failed = 0,
                                !.notFound = 0, !.downloaded = {},
                                !.atStart = CountsOf(db)]
       \/ pure' = [pure EXCEPT !.pc = "exited", !.atStart = CountsOf(db), !.downloaded = {}]
    /\ UNCHANGED db
    /\ ScriptUnchanged

\* one pass of the loop head: the end of the list, a PDF that is already
\* indexed, or the start of a download
DownloadLoopHead ==
    /\ pure.op = "download" /\ pure.pc = "loop"
    /\ IF pure.i >= Len(PDFS)
       THEN pure' = [pure EXCEPT !.pc = "done"]
       ELSE IF SfdcUri(PDFS[pure.i + 1]) \in pure.existingSources
            THEN pure' = [pure EXCEPT !.skipped = @ + 1, !.i = @ + 1]
            ELSE pure' = [pure EXCEPT !.pc = "download"]
    /\ UNCHANGED db
    /\ ScriptUnchanged

\* `await downloadPdf(filename, tmpPath)` settles: the file is there, or the
\* catch block counts a 404 or a failure
DownloadSettles ==
    /\ pure.op = "download" /\ pure.pc = "download"
    /\ \/ pure' = [pure EXCEPT !.pc = "parse", !.downloaded = @ \cup {PDFS[pure.i + 1]}]
       \/ /\ pure.script = "current"
          /\ pure' = [pure EXCEPT !.pc = "loop", !.notFound = @ + 1, !.i = @ + 1]
       \/ pure' = [pure EXCEPT !.pc = "loop", !.failed = @ + 1, !.i = @ + 1]
    /\ UNCHANGED db
    /\ ScriptUnchanged

\* `await pdf(buffer)` settles; a text that is long enough is cut into chunks
DownloadParsed ==
    LET filename == PDFS[pure.i + 1]
    IN /\ pure.op = "download" /\ pure.pc = "parse"
       /\ \/ IF SfdcTextLen(filename) < MinTextLen(pure.script)
             THEN pure' = [pure EXCEPT !.pc = "loop", !.failed = @ + 1, !.i = @ + 1]
             ELSE pure' = [pure EXCEPT !.pc = "embed", !.chunks = SfdcChunkList(filename),
                                       !.embeddings = << >>]
          \/ pure' = [pure EXCEPT !.pc = "loop", !.failed = @ + 1, !.i = @ + 1]
       /\ UNCHANGED db
       /\ ScriptUnchanged

\* a transaction that stops after its first row
InsertFirst(d, localUri, chunks, embeddings) ==
    IF chunks = << >> THEN d
    ELSE insertVec(insertChunk(d, localUri, Head(chunks)), Head(embeddings))

\* the rows of chunks[from..] with their embeddings, inserted in order
RECURSIVE InsertAll(_, _, _, _)
InsertAll(d, localUri, chunks, embeddings) ==
    IF chunks = << >> THEN d
    ELSE InsertAll(insertVec(insertChunk(d, localUri, Head(chunks)), Head(embeddings)),
                   localUri, Tail(chunks), Tail(embeddings))

\* `await extractor(chunk, ...)` resolves. current: the embedding is kept, and
\* after the last one the synchronous transaction writes every row; older:
\* the row is inserted at once
DownloadEmbedded ==
    LET filename == PDFS[pure.i + 1]
        c == Len(pure.embeddings) + 1
        embeddings == Append(pure.embeddings, embedder(pure.chunks[c]))
        last == c = Len(pure.chunks)
        next == IF last
                THEN [pure EXCEPT !.pc = "loop", !.success = @ + 1, !.i = @ + 1,
                                  !.chunks = << >>, !.embeddings = << >>]
                ELSE [pure EXCEPT !.embeddings = embeddings]
    IN /\ pure.op = "download" /\ pure.pc = "embed"
       /\ pure' = next
       /\ IF pure.script = "current"
          THEN IF last
               THEN db' = InsertAll(db, SfdcUri(filename), pure.chunks, embeddings)
               ELSE UNCHANGED db
          ELSE db' = insertVec(insertChunk(db, SfdcUri(filename), pure.chunks[c]),
                               embeddings[c])
       /\ ScriptUnchanged

\* `await extractor(chunk, ...)` rejects: the catch block counts a failure
DownloadEmbedFails ==
    /\ pure.op = "download" /\ pure.pc = "embed"
    /\ pure' = [pure EXCEPT !.pc = "loop", !.failed = @ + 1, !.i = @ + 1,
                            !.chunks = << >>, !.embeddings = << >>]
    /\ UNCHANGED db
    /\ ScriptUnchanged

\* the script is run again
DownloadAgain ==
    /\ pure.op = "download" /\ pure.pc \in {"done", "exited"}
    /\ pure.run < MaxRuns
    /\ pure' = [pure EXCEPT !.pc = "start", !.run = @ + 1]
    /\ UNCHANGED db
    /\ ScriptUnchanged

DownloadNext ==
    \/ DownloadStart
    \/ DownloadLoopHead
    \/ DownloadSettles
    \/ DownloadParsed
    \/ DownloadEmbedded
    \/ DownloadEmbedFails
    \/ DownloadAgain

DownloadSpec == DownloadInit /\ [][DownloadNext]_vars

\* ------------------------------------------------------------------------
\* scripts/download-and-ingest-sfdc-pdfs.js: downloadPdf(filename, destPath)
\* ------------------------------------------------------------------------
\* the status codes the model's server answers with
Statuses == {200, 301, 302, 307, 308, 404, 500}
RedirectStatuses == {301, 302, 307, 308}

\* pure.requests lists the https.get calls made so far: the attempt, whether
\* the call follows a redirect, whether it emitted 'error', and otherwise the
\* status of the response (0 when there was none);
\* pure.slept lists the delays of the sleep calls; pure.settles counts the
\* calls of resolve and reject of the promise that was returned
DownloadPdfInit ==
    /\ ServerIdle
    /\ pure \in [op : {"downloadPdf"}, filename : { PDFS[i] : i \in 1..Len(PDFS) },
                  attempt : {1}, pc : {"request"}, promise : {"pending"}, is404 : {FALSE},
                  settles : {0}, requests : {<< >>}, slept : {<< >>}]

Requested(p, redirected, error, status) ==
    [p EXCEPT !.requests = Append(@, [attempt |-> p.attempt, redirected |-> redirected,
                                      error |-> error, status |-> status])]

\* resolve() or reject(e): the first call settles the promise
Settle(p, how, is404) ==
    [p EXCEPT !.pc = "settled", !.settles = @ + 1,
              !.promise = IF p.promise = "pending" THEN how ELSE @,
              !.is404 = IF p.promise = "pending" THEN is404 ELSE @]

\* the request emits 'error': a retry after sleep(1000 * attempt), or reject(e)
PdfRequestError ==
    /\ pure.op = "downloadPdf" /\ pure.pc = "request"
    /\ LET p == Requested(pure, FALSE, TRUE, 0)
       IN IF pure.attempt < MAX_RETRIES
          THEN pure' = [p EXCEPT !.pc = "sleep", !.slept = Append(@, 1000 * pure.attempt)]
          ELSE pure' = Settle(p, "rejected", FALSE)
    /\ UNCHANGED db /\ ScriptUnchanged

\* sleep is over: downloadPdf(filename, destPath, attempt + 1), whose outcome
\* settles the promise
PdfRetry ==
    /\ pure.op = "downloadPdf" /\ pure.pc = "sleep"
    /\ pure' = [pure EXCEPT !.pc = "request", !.attempt = @ + 1]
    /\ UNCHANGED db /\ ScriptUnchanged

\* handleRes(res)
PdfResponse(status) ==
    /\ pure.op = "downloadPdf" /\ pure.pc = "request"
    /\ LET p == Requested(pure, FALSE, FALSE, status)
       IN pure' = IF status \in RedirectStatuses THEN [p EXCEPT !.pc = "redirect"]
                  ELSE IF status = 404 THEN Settle(p, "rejected", TRUE)
                  ELSE IF status # 200 THEN Settle(p, "rejected", FALSE)
                  ELSE [p EXCEPT !.pc = "piping"]
    /\ UNCHANGED db /\ ScriptUnchanged

\* res.pipe(file): file emits 'finish' (resolve) or 'error' (reject)
PdfFileFinish ==
    /\ pure.op = "downloadPdf" /\ pure.pc = "piping"
    /\ pure' = Settle(pure, "resolved", FALSE)
    /\ UNCHANGED db /\ ScriptUnchanged

PdfFileError ==
    /\ pure.op = "downloadPdf" /\ pure.pc = "piping"
    /\ pure' = Settle(pure, "rejected", FALSE)
    /\ UNCHANGED db /\ ScriptUnchanged

\* https.get(res.headers.location, ...).on('error', reject)
PdfRedirectError ==
    /\ pure.op = "downloadPdf" /\ pure.pc = "redirect"
    /\ pure' = Settle(Requested(pure, TRUE, TRUE, 0), "rejected", FALSE)
    /\ UNCHANGED db /\ ScriptUnchanged

\* the callback (r2) => { r2.pipe(newFile); ... }: the status is not looked at
PdfRedirectResponse(status) ==
    /\ pure.op = "downloadPdf" /\ pure.pc = "redirect"
    /\ pure' = [Requested(pure, TRUE, FALSE, status) EXCEPT !.pc = "redirect_piping"]
    /\ UNCHANGED db /\ ScriptUnchanged

\* newFile emits 'finish': resolve()
PdfRedirectFinish ==
    /\ pure.op = "downloadPdf" /\ pure.pc = "redirect_piping"
    /\ pure' = Settle(pure, "resolved", FALSE)
    /\ UNCHANGED db /\ ScriptUnchanged

DownloadPdfNext ==
    \/ PdfRequestError
    \/ PdfRetry
    \/ \E status \in Statuses : PdfResponse(status)
    \/ PdfFileFinish
    \/ PdfFileError
    \/ PdfRedirectError
    \/ \E status \in Statuses : PdfRedirectResponse(status)
    \/ PdfRedirectFinish

DownloadPdfSpec == DownloadPdfInit /\ [][DownloadPdfNext]_vars

\* ------------------------------------------------------------------------
\* scripts/ingest-url.js: fetchUrl(targetUrl, depth)
\* ------------------------------------------------------------------------
\* the pages of the model's web, and the body of each as the 'data' events
\* deliver it
FetchUrls == {"http://h/a", "https://h/b"}
PageBody(url) == IF url = "http://h/a" THEN <<"<p>", "a", "</p>">> ELSE <<"<p>b</p>">>

\* the Location headers: an absolute URL, or none (''), which new URL('',
\* targetUrl) resolves to targetUrl itself
Locations == FetchUrls \cup {""}
NextUrl(location, targetUrl) == IF location \in FetchUrls THEN location ELSE targetUrl

NeverTooDeep(depth) == FALSE
TooManyRedirects(depth) == depth > 5

\* pure.urls lists the URLs requested so far, pure.status is the status of the
\* last response (0 when there was none), pure.body the text received so far
\* and pure.value what the promise was resolved with
FetchUrlInit ==
    /\ ServerIdle
    /\ pure \in [op : {"fetchUrl"}, depth : {0}, pc : {"request"}, promise : {"pending"},
                  error : {""}, urls : { <<u>> : u \in FetchUrls }, status : {0},
                  body : {<< >>}, value : {<< >>}]

\* the response callback; a redirect calls fetchUrl(next, depth + 1), which
\* rejects when depth + 1 > 5 and makes the next request otherwise
FetchResponse(status, location) ==
    /\ pure.op = "fetchUrl" /\ pure.pc = "request"
    /\ LET targetUrl == pure.urls[Len(pure.urls)]
           p == [pure EXCEPT !.status = status]
       IN pure' =
            IF status \in {301, 302, 307, 308}
            THEN IF TooManyRedirects(pure.depth + 1)
                 THEN [p EXCEPT !.pc = "settled", !.promise = "rejected",
                                !.error = "Too many redirects", !.depth = @ + 1]
                 ELSE [p EXCEPT !.depth = @ + 1,
                                !.urls = Append(@, NextUrl(location, targetUrl))]
            ELSE IF status # 200
            THEN [p EXCEPT !.pc = "settled", !.promise = "rejected", !.error = "HTTP"]
            ELSE [p EXCEPT !.pc = "body"]
    /\ UNCHANGED db /\ ScriptUnchanged

\* .on('error', reject)
FetchError ==
    /\ pure.op = "fetchUrl" /\ pure.pc = "request"
    /\ pure' = [pure EXCEPT !.pc = "settled", !.promise = "rejected", !.error = "network",
                            !.status = 0]
    /\ UNCHANGED db /\ ScriptUnchanged

\* res.on('data', d => body += d)
FetchData ==
    /\ pure.op = "fetchUrl" /\ pure.pc = "body"
    /\ Len(pure.body) < Len(PageBody(pure.urls[Len(pure.urls)]))
    /\ pure' = [pure EXCEPT !.body = Append(@, PageBody(pure.urls[Len(pure.urls)])[Len(@) + 1])]
    /\ UNCHANGED db /\ ScriptUnchanged

\* res.on('end', () => resolve(body))
FetchEnd ==
    /\ pure.op = "fetchUrl" /\ pure.pc = "body"
    /\ Len(pure.body) = Len(PageBody(pure.urls[Len(pure.urls)]))
    /\ pure' = [pure EXCEPT !.pc = "settled", !.promise = "resolved", !.value = pure.body]
    /\ UNCHANGED db /\ ScriptUnchanged

FetchUrlNext ==
    \/ \E status \in Statuses, location \in Locations :
          /\ (status \notin RedirectStatuses) => location = ""
          /\ FetchResponse(status, location)
    \/ FetchError
    \/ FetchData
    \/ FetchEnd

\* every request is answered or fails, and a body that began also ends
FetchUrlSpec == FetchUrlInit /\ [][FetchUrlNext]_vars /\ WF_vars(FetchUrlNext)

\* ------------------------------------------------------------------------
\* src/ingest.ts: main(), and scrapePage(url) of src/scraper.ts
\* ------------------------------------------------------------------------
\* What scrapePage(url) can do for the three kinds of URL: a help article
\* (Aura fast path, then the browser), a PDF, any other page (the browser).
\* An outcome says whether the call threw, whether the browser was launched,
\* and the ScrapedPage returned. Texts are token lists; error "" is an unset
\* error field; turndown and the digests are tables over the model's pages.
ScrapePage(url) ==
    LET Turndown(html) ==
            CASE html = <<"<p>", "a", "</p>">> -> <<"a">>
              [] html = <<"<p>", "a", "</p>", "<p>", "b", "</p>">> -> <<"a", "\n", "\n", "b">>
              [] html = <<"<h1>", "t", "</h1>">> -> <<"#", " ", "t">>
              [] OTHER -> << >>
        Digest(alg, markdown) == <<alg>> \o markdown
        Htmls == {<<"<p>", "a", "</p>">>, <<"<p>", "a", "</p>", "<p>", "b", "</p>">>,
                  <<"<h1>", "t", "</h1>">>, <<"<div>", "</div>">>}
        Returned(launched, title, markdown, hash, error) ==
            [threw |-> FALSE, launched |-> launched,
             page |-> [url |-> url, title |-> title, markdown |-> markdown, hash |-> hash,
                       error |-> error]]
        Failed(launched, title, error) == Returned(launched, title, << >>, << >>, error)
        Threw(launched) ==
            [threw |-> TRUE, launched |-> launched,
             page |-> [url |-> url, title |-> "", markdown |-> << >>, hash |-> << >>,
                       error |-> ""]]
        isArticle == url = "https://help.salesforce.com/s/articleView?id=x"
        isPdf == url = "https://h/doc.pdf"
        aura == IF isArticle
                THEN { Returned(FALSE, title, Turndown(html), Digest("md5", Turndown(html)), "") :
                          html \in Htmls, title \in {"Intro", "Salesforce Help Article"} }
                ELSE {}
        pdfs == IF isPdf
                THEN { Failed(FALSE, "Error", e) : e \in {"PDF HTTP Error", "PDF Parse Error"} }
                     \cup { Returned(FALSE, "doc.pdf", <<"#", " ", "doc.pdf", "\n", "\n">> \o text,
                                     Digest("sha256", <<"#", " ", "doc.pdf", "\n", "\n">> \o text), "") :
                               text \in {<< >>, <<"a">>} }
                ELSE {}
        pages == IF isPdf THEN {}
                 ELSE {Threw(FALSE), Threw(TRUE)}
                      \cup { Failed(TRUE, "Error", e) : e \in {"HTTP Error", "error.message"} }
                      \cup { Failed(TRUE, title, "No content found on page") :
                                title \in {"Intro", "Untitled"} }
                      \cup (IF isArticle
                            THEN {Failed(TRUE, "Error", "Found no accessible documentation content")}
                            ELSE {})
                      \cup { Returned(TRUE, title, Turndown(html), Digest("sha256", Turndown(html)), "") :
                                html \in Htmls, title \in {"Intro", "Salesforce Documentation"} }
    IN aura \cup pdfs \cup pages

NeverFailed(pageData) == FALSE
\* !pageData || pageData.error || !pageData.markdown
ScrapeFailed(pageData) == pageData.error # "" \/ pageData.markdown = << >>

\* pure.stages lists the stages done so far; pure.exitCode is -1 while the
\* process runs
IngestInit ==
    /\ ServerIdle
    /\ pure \in [op : {"ingest"},
                  url : {"https://help.salesforce.com/s/articleView?id=x", "https://h/doc.pdf",
                         "https://developer.salesforce.com/docs"},
                  pc : {"scraping"}, scraped : {FALSE}, threw : {FALSE},
                  pageData : {[url |-> "", title |-> "", markdown |-> << >>, hash |-> << >>,
                               error |-> ""]},
                  browser : {FALSE}, exitCode : {-1}, chunks : {<< >>}, i : {0},
                  stages : {<< >>}]

\* scrapePage returned: the check of the page, then chunkMarkdown and the
\* call of pipeline(...)
IngestScraped ==
    /\ pure.op = "ingest" /\ pure.pc = "scraping"
    /\ \E o \in ScrapePage(pure.url) :
          /\ ~o.threw
          /\ LET p == [pure EXCEPT !.scraped = TRUE, !.pageData = o.page,
                                   !.browser = o.launched, !.stages = Append(@, "scrape")]
             IN pure' = IF ScrapeFailed(o.page)
                        THEN [p EXCEPT !.pc = "closing"]
                        ELSE [p EXCEPT !.pc = "loading",
                                       !.chunks = chunkMarkdown(o.page.markdown, 800, 100),
                                       !.stages = Append(@, "chunk")]
    /\ UNCHANGED db /\ ScriptUnchanged

\* await closeBrowser(); process.exit(1)
IngestExit ==
    /\ pure.op = "ingest" /\ pure.pc = "closing"
    /\ pure' = [pure EXCEPT !.pc = "exited", !.browser = FALSE, !.exitCode = 1]
    /\ UNCHANGED db /\ ScriptUnchanged

\* the model is loaded; the statements are prepared and the loop begins
IngestLoaded ==
    /\ pure.op = "ingest" /\ pure.pc = "loading"
    /\ pure' = [pure EXCEPT !.pc = IF pure.chunks = << >> THEN "verifying" ELSE "embedding",
                            !.i = 1]
    /\ UNCHANGED db /\ ScriptUnchanged

\* extractor(enrichedText) resolved: insertChunk.run, insertVec.run
IngestEmbedded ==
    /\ pure.op = "ingest" /\ pure.pc = "embedding"
    /\ LET enrichedText == <<"Source: ", pure.pageData.title, "\nURL: ", pure.url, "\n\n">>
                               \o pure.chunks[pure.i]
       IN db' = insertVec(insertChunk(db, pure.url, enrichedText),
                         embedder(Str(enrichedText, 0)))
    /\ pure' = [pure EXCEPT !.i = @ + 1,
                            !.pc = IF pure.i = Len(pure.chunks) THEN "verifying" ELSE "embedding",
                            !.stages = @ \o <<"embed", "insert">>]
    /\ ScriptUnchanged

\* the verification query, closeBrowser(), and the end of main
IngestVerified ==
    /\ pure.op = "ingest" /\ pure.pc = "verifying"
    /\ pure' = [pure EXCEPT !.pc = "exited", !.browser = FALSE, !.exitCode = 0]
    /\ UNCHANGED db /\ ScriptUnchanged

\* an awaited call rejects: main().catch logs and closes the browser
IngestThrows ==
    /\ pure.op = "ingest"
    /\ \/ /\ pure.pc = "scraping"
          /\ \E o \in ScrapePage(pure.url) : o.threw
       \/ pure.pc \in {"loading", "embedding", "verifying"}
    /\ pure' = [pure EXCEPT !.pc = "exited", !.threw = TRUE, !.browser = FALSE, !.exitCode = 0]
    /\ UNCHANGED db /\ ScriptUnchanged

IngestNext ==
    \/ IngestScraped
    \/ IngestExit
    \/ IngestLoaded
    \/ IngestEmbedded
    \/ IngestVerified
    \/ IngestThrows

IngestSpec == IngestInit /\ [][IngestNext]_vars

\* ------------------------------------------------------------------------
\* Properties
\* ------------------------------------------------------------------------
\* C1: in the v2.1.0 server the chunks table and the vec_chunks table hold
\* the same set of rowids, whatever add_pdf_to_index and delete_source calls
\* have run: every chunk row has its embedding row and the reverse.
C1_SameRowids ==
    version = "2.1.0" => Rowids(db.chunks) = Rowids(db.vec_chunks)

\* a delete_source has removed one source and the chunks of another remain
C1_Witness ==
    /\ version = "2.1.0"
    /\ response.kind = "deleted"
    /\ Rowids(db.chunks) # {}
    /\ Rowids(db.chunks) = Rowids(db.vec_chunks)

\* C2: every chunk chunkMarkdown(markdown, maxChunkLength, overlap) returns
\* has fewer than maxChunkLength characters.
C2_ChunksShorterThanMax ==
    (pure.op = "chunkMarkdown" /\ pure.done) =>
        \A j \in 1..Len(pure.chunks) : Len(pure.chunks[j]) < pure.maxChunkLength

\* C3: a text of length L is cut into the windows text[700i, 700i + 800) for
\* every i >= 0 with 700i < L; each chunk body has at most 800 characters,
\* each body after the first begins with the last 100 characters of the
\* window before it (or lies wholly in them when it is shorter than 100),
\* and the windows cover every character of the text.
Characters(s) == { s[i] : i \in 1..Len(s) }
LastChars(s, n) == SubSeq(s, Len(s) - Min(n, Len(s)) + 1, Len(s))

C3_FixedWindows ==
    (pure.op = "fixedWindows" /\ pure.done) =>
        LET L == Len(pure.text)
            chunks == pure.chunks
        IN /\ Len(chunks) = (L + 699) \div 700
           /\ \A j \in 1..Len(chunks) :
                /\ chunks[j] = SubSeq(pure.text, 700 * (j - 1) + 1,
                                      Min(700 * (j - 1) + 800, L))
                /\ Len(chunks[j]) <= 800
                /\ j > 1 =>
                     IF Len(chunks[j]) >= 100
                     THEN SubSeq(chunks[j], 1, 100) = LastChars(chunks[j - 1], 100)
                     ELSE chunks[j] = LastChars(LastChars(chunks[j - 1], 100),
                                                Len(chunks[j]))
           /\ UNION { Characters(chunks[j]) : j \in 1..Len(chunks) } = Characters(pure.text)

\* the pairs of a chunk row and its embedding row
Pairs(d) == Rowids(d.chunks) \cap Rowids(d.vec_chunks)

IsSearchAnswer(r) ==
    r.tool = "semantic_search_docs" /\ r.kind \in {"results", "no_results"}

\* C4: semantic_search_docs answers a valid query with exactly min(k, N)
\* results, N being the number of chunk/embedding pairs in the store; k is 5
\* when the argument is omitted and otherwise the integer given, from 1 to
\* 20; with N = 0 the answer is the 'No results found' text without isError.
C4_ResultCount ==
    IsSearchAnswer(response) =>
        LET N == Cardinality(Pairs(db))
            k == IF response.args.k.t = "absent" THEN 5 ELSE response.args.k.n
        IN /\ response.args.k.t \in {"absent", "int"}
           /\ k \in 1..20
           /\ response.args.query.t = "str"
           /\ StrLen(response.args.query) \in 1..1000
           /\ Len(response.rows) = Min(k, N)
           /\ response.n = Len(response.rows)
           /\ ~response.isError
           /\ (N = 0) <=> (response.kind = "no_results")

\* a search with k = 2 over three pairs lists two results
C4_Witness ==
    /\ IsSearchAnswer(response)
    /\ response.args.k = Num(2)
    /\ Cardinality(Pairs(db)) = 3
    /\ Len(response.rows) = 2

\* C5: the results are listed in non-decreasing cosine distance from the
\* query embedding, and no stored chunk left out of the answer is strictly
\* nearer to the query than a chunk in it.
C5_NearestFirst ==
    IsSearchAnswer(response) =>
        LET rows == response.rows
            q == response.queryEmbedding
            listed == { rows[i].rowid : i \in 1..Len(rows) }
            vec(r) == db.vec_chunks[r]
        IN /\ \A i, j \in 1..Len(rows) :
                i < j => /\ CosineLeq(vec(rows[i].rowid), vec(rows[j].rowid), q)
                         /\ rows[i].distance <= rows[j].distance
           /\ \A i \in 1..Len(rows) :
                rows[i].distance = CosineDistance(vec(rows[i].rowid), q)
           /\ \A o \in Pairs(db) \ listed : \A r \in listed :
                CosineLeq(vec(r), vec(o), q)

\* a search with k = 1 leaves out a chunk that is farther than the one listed
C5_Witness ==
    /\ IsSearchAnswer(response)
    /\ Len(response.rows) = 1
    /\ \E o \in Pairs(db) :
          ~CosineLeq(db.vec_chunks[o], db.vec_chunks[response.rows[1].rowid],
                     response.queryEmbedding)

\* the calls C6 names, as the response r to them shows their arguments;
\* d is the store when the call is answered
RejectedCall(r, d) ==
    \/ /\ r.tool = "semantic_search_docs"
       /\ \/ r.args.query.t = "str" /\ StrLen(r.args.query) = 0
          \/ r.args.query.t = "str" /\ StrLen(r.args.query) > 1000
          \/ r.args.k.t # "absent" /\ ~(r.args.k.t = "int" /\ r.args.k.n \in 1..20)
    \/ /\ r.tool = "get_source_content"
       /\ \/ r.args.source.t = "str" /\ StrLen(r.args.source) = 0
          \/ r.args.limit.t = "int" /\ r.args.limit.n \notin 1..100
    \/ /\ r.tool = "add_pdf_to_index"
       /\ r.args.file_path.t = "str"
       /\ StrLen(r.args.file_path) = 0 \/ ~ExistsSync(r.args.file_path.s)
    \/ /\ r.tool = "delete_source"
       /\ r.args.source.t = "str"
       /\ CountSource(d, r.args.source.s) = 0

\* C6: a call that is rejected before it does its work is answered with
\* isError: true, has written nothing and leaves both tables as they were.
C6_RejectedStep ==
    RejectedCall(response', db) => (response'.isError /\ ~response'.wrote /\ db' = db)

C6_RejectedCallsChangeNothing == [][C6_RejectedStep]_vars

\* a path that does not exist is rejected while the store holds chunks
C6_Witness ==
    /\ response.tool = "add_pdf_to_index"
    /\ response.kind = "file_not_found"
    /\ response.isError
    /\ Rowids(db.chunks) # {}

\* the add_pdf_to_index call that runs its existence and deduplication check
\* in this step
Checking(c) == call[c].pc = "add_imports" /\ call'[c] # call[c]

\* C7: in v2.1.0 an add_pdf_to_index call that finds its source ID
\* file://offline/<basename, whitespace replaced by _> with at least one chunk
\* inserts no row and reports the existing chunk count, and whenever the call
\* reports that the file is already indexed the store is as it was.
C7_SkipStep ==
    version = "2.1.0" =>
        /\ \A c \in Calls :
              LET p == call[c].args.file_path.s
                  uri == OfflinePrefix \o ReplaceSpaceRuns(Basename(p))
              IN (Checking(c) /\ ExistsSync(p) /\ CountSource(db, uri) >= 1) =>
                    /\ response'.kind = "already_indexed"
                    /\ ~response'.isError
                    /\ response'.n = CountSource(db, uri)
                    /\ ~response'.wrote
                    /\ db' = db
        /\ response'.kind = "already_indexed" =>
              /\ db' = db
              /\ ~response'.wrote
              /\ response'.n = CountSource(db, response'.localUri)
              /\ response'.n >= 1

C7_AlreadyIndexedIsSkipped == [][C7_SkipStep]_vars

\* the file "/e/a_b.pdf" is skipped because "/d/a b.pdf" was indexed
C7_Witness ==
    /\ version = "2.1.0"
    /\ response.kind = "already_indexed"
    /\ response.args.file_path.s = PathA_B
    /\ response.n = 3

\* C8: in v2.1.0 an add_pdf_to_index call that fails leaves no chunk row and
\* no embedding row of its file in the store.
C8_FailureLeavesNoRows ==
    (version = "2.1.0" /\ response.tool = "add_pdf_to_index" /\ response.isError) =>
        /\ ~response.wrote
        /\ CountSource(db, response.localUri) = 0

\* C9: when add_pdf_to_index reports 'Chunks created: n' for a source ID the
\* store holds exactly n chunk rows of that source, each with its embedding
\* row; every other answer is an error or 'already indexed'.
C9_ReportedCountIsStoredCount ==
    response.tool = "add_pdf_to_index" =>
        /\ response.kind = "indexed" =>
              /\ CountSource(db, response.localUri) = response.n
              /\ RowidsOfSource(db, response.localUri) \subseteq Rowids(db.vec_chunks)
        /\ response.kind # "indexed" =>
              (response.isError \/ response.kind = "already_indexed")

\* C10: a delete_source call that reports a deletion leaves no chunk row of
\* the source and no embedding row under a rowid of its chunks, reports the
\* number of chunk rows the source had, and leaves the other rows alone.
C10_DeleteStep ==
    response'.kind = "deleted" =>
        LET source == response'.args.source.s
            gone == RowidsOfSource(db, source)
        IN /\ CountSource(db', source) = 0
           /\ Rowids(db'.vec_chunks) \cap gone = {}
           /\ response'.n = Cardinality(gone)
           /\ response'.n >= 1
           /\ Truthy(response'.args.confirm)
           /\ \A r \in Rowids(db.chunks) \ gone :
                r \in Rowids(db'.chunks) /\ db'.chunks[r] = db.chunks[r]
           /\ \A r \in Rowids(db.vec_chunks) \ gone :
                r \in Rowids(db'.vec_chunks) /\ db'.vec_chunks[r] = db.vec_chunks[r]

C10_DeleteRemovesAll == [][C10_DeleteStep]_vars

\* a source of three chunks has been deleted
C10_Witness ==
    /\ response.kind = "deleted"
    /\ response.n = 3
    /\ Rowids(db.chunks) = {}
    /\ Rowids(db.vec_chunks) = {}

\* C11: delete_source deletes only when confirm is the boolean true: for
\* every other value of the argument (absent, false, the string "false", the
\* number 1) the call returns isError and removes no row of either table.
C11_DeleteStep ==
    (response'.tool = "delete_source" /\ response'.args.confirm # Bool(TRUE)) =>
        (response'.isError /\ db' = db)

C11_OnlyTrueConfirms == [][C11_DeleteStep]_vars

\* how often text_chunk t occurs among the rows of a source, and in a list
RowsWithText(d, source, t) ==
    Cardinality({ r \in RowidsOfSource(d, source) : d.chunks[r].text_chunk = t })
TimesInList(list, t) == Cardinality({ i \in 1..Len(list) : list[i] = t })

\* C12: re-indexing by delete_source followed by add_pdf_to_index (v2.1.0): a
\* reported deletion leaves no chunk of the source, an add that finds no
\* chunk of its source is not skipped as already indexed, and when an add
\* reports success the rows of its source are the chunks of the file, each
\* as often as the file yields it and each with its embedding row - the
\* same rows as after a first add of the file.
C12_ReindexStep ==
    version = "2.1.0" =>
        /\ response'.kind = "deleted" => CountSource(db', response'.args.source.s) = 0
        /\ \A c \in Calls :
              LET p == call[c].args.file_path.s
              IN (Checking(c) /\ ExistsSync(p)
                    /\ CountSource(db, LocalUri(Basename(p))) = 0) =>
                        response'.kind # "already_indexed"
        /\ (response'.tool = "add_pdf_to_index" /\ response'.kind = "indexed") =>
              LET source == response'.localUri
                  list == ChunkListOf(response'.args.file_path.s)
                  rows == RowidsOfSource(db', source)
              IN /\ response'.n = Len(list)
                 /\ Cardinality(rows) = Len(list)
                 /\ rows \subseteq Rowids(db'.vec_chunks)
                 /\ \A i \in 1..Len(list) :
                       RowsWithText(db', source, list[i]) = TimesInList(list, list[i])

C12_DeleteThenAddReindexes == [][C12_ReindexStep]_vars

\* "/d/c.pdf" is indexed again after the row of its first indexing was deleted
C12_Witness ==
    /\ version = "2.1.0"
    /\ response.tool = "add_pdf_to_index"
    /\ response.kind = "indexed"
    /\ response.args.file_path.s = PathC
    /\ Rowids(db.chunks) = {2}
    /\ db.chunks[2].source = LocalUri(Basename(PathC))

IsContentAnswer(r) ==
    r.tool = "get_source_content" /\ r.kind \in {"content", "no_chunks_found"}

\* the limit in force: 20 when the argument is omitted
LimitOf(r) == IF r.args.limit.t = "absent" THEN 20 ELSE r.args.limit.n

ListedRowids(r) == { r.rows[i].rowid : i \in 1..Len(r.rows) }

\* the n lowest rowids of S (all of S when it has fewer)
Lowest(S, n) == { x \in S : Cardinality({ y \in S : y < x }) < n }

ContainsText(str, sub) ==
    \E i \in 0..(Len(str) - Len(sub)) :
        \A j \in 1..Len(sub) : Lower(str[i + j]) = Lower(sub[j])

\* C14: get_source_content (v2.1.0) matches exactly first: when a chunk has
\* the argument as its source the answer holds only chunks of that source, in
\* ascending rowid order, at most limit of them, and is not marked fuzzy;
\* otherwise it falls back to the chunks whose source contains the argument,
\* in which %, _ and \ match only themselves.
C14_ExactThenSubstring ==
    (version = "2.1.0" /\ IsContentAnswer(response)) =>
        LET arg == response.args.source.s
            rows == response.rows
            own == RowidsOfSource(db, arg)
            containing == { r \in Rowids(db.chunks) : ContainsText(db.chunks[r].source, arg) }
        IN /\ \A i, j \in 1..Len(rows) : i < j => rows[i].rowid < rows[j].rowid
           /\ Len(rows) <= LimitOf(response)
           /\ \A i \in 1..Len(rows) :
                /\ rows[i].source = db.chunks[rows[i].rowid].source
                /\ rows[i].text_chunk = db.chunks[rows[i].rowid].text_chunk
           /\ IF own # {}
              THEN /\ \A i \in 1..Len(rows) : rows[i].source = arg
                   /\ ~response.fuzzy
                   /\ response.matchedSource = arg
                   /\ Len(rows) >= 1
              ELSE /\ ListedRowids(response) = Lowest(containing, LimitOf(response))
                   /\ response.fuzzy <=> (containing # {})
                   /\ containing # {} =>
                         \E r \in containing : response.matchedSource = db.chunks[r].source

\* the fallback finds "file://offline/a_b.pdf" for the argument "a_b" while
\* a chunk of "file://offline/c.pdf" is in the store
C14_Witness ==
    /\ version = "2.1.0"
    /\ IsContentAnswer(response)
    /\ response.fuzzy
    /\ response.args.source.s = <<"a", "_", "b">>
    /\ Len(response.rows) >= 1
    /\ \E r \in Rowids(db.chunks) : db.chunks[r].source = LocalUri(Basename(PathC))

RECURSIVE SumCounts(_)
SumCounts(rows) ==
    IF rows = << >> THEN 0 ELSE Head(rows).chunk_count + SumCounts(Tail(rows))

\* C15: list_doc_sources answers with exactly one row per distinct source of
\* the chunks table, each with the number of chunk rows of that source, in
\* non-increasing order of count, and the counts add up to the reported
\* total; with an empty table it answers 'No documents indexed yet'.
C15_SourcesWithCounts ==
    response.tool = "list_doc_sources" =>
        LET rows == response.rows
            sources == { db.chunks[r].source : r \in Rowids(db.chunks) }
        IN /\ ~response.isError
           /\ (Rowids(db.chunks) = {}) <=> (response.kind = "no_documents")
           /\ Rowids(db.chunks) # {} =>
                /\ response.kind = "sources"
                /\ Len(rows) = Cardinality(sources)
                /\ { rows[i].source : i \in 1..Len(rows) } = sources
                /\ \A i \in 1..Len(rows) :
                      rows[i].chunk_count = CountSource(db, rows[i].source)
                /\ \A i, j \in 1..Len(rows) :
                      i < j => rows[i].chunk_count >= rows[j].chunk_count
                /\ SumCounts(rows) = response.n
                /\ response.n = Cardinality(Rowids(db.chunks))

\* two sources with different counts are listed
C15_Witness ==
    /\ response.tool = "list_doc_sources"
    /\ Len(response.rows) = 2
    /\ response.rows[1].chunk_count > response.rows[2].chunk_count

\* C16: the v2.1.0 tool-call handler answers every request with a result; an
\* unknown tool name is answered 'Unknown tool' with isError: true, and every
\* exception raised by the code of a tool is caught and returned with
\* isError: true, so none of them ends the server process.
C16_HandlerNeverFails ==
    version = "2.1.0" =>
        /\ serverUp
        /\ response.tool = "other" => (response.kind = "unknown_tool" /\ response.isError)
        /\ response.kind \in {"zod_error", "exception", "tx_promise"} => response.isError

\* the place of a file in PDFS
PlaceOf(filename) == CHOOSE i \in 1..Len(PDFS) : PDFS[i] = filename

\* the PDFs that had chunks when the current run started
IndexedAtStart == { i \in 1..Len(PDFS) : pure.atStart[i] > 0 }

\* C17: a run of either download script skips every curated PDF whose source
\* ID file://sfdc-official/<file> has chunks when the run starts: the PDF is
\* not downloaded, its rows stay as they were, and it is counted as skipped
\* when the loop passes it; a PDF without chunks at the start is not skipped.
C17_IndexedPdfsAreSkipped ==
    (pure.op = "download" /\ pure.pc \notin {"start", "exited"}) =>
        /\ \A i \in IndexedAtStart :
              /\ PDFS[i] \notin pure.downloaded
              /\ CountSource(db, SfdcUri(PDFS[i])) = pure.atStart[i]
        /\ pure.skipped = Cardinality({ i \in IndexedAtStart : i <= pure.i })
        /\ pure.pc = "done" =>
              pure.success + pure.skipped + pure.failed + pure.notFound = Len(PDFS)

\* a second run has passed a PDF that the first run ingested
C17_Witness ==
    /\ pure.op = "download"
    /\ pure.run = 2
    /\ pure.pc = "done"
    /\ pure.skipped = 2
    /\ pure.atStart[1] = 2

\* C18: downloadPdf makes at most MAX_RETRIES = 3 attempts; a network error on
\* attempt 1 or 2 starts the next attempt after a delay of 1000 ms times the
\* attempt number and a network error on attempt 3 rejects; a status other
\* than 200 or a redirect rejects at once (404 with is404); the promise is
\* settled exactly once.
C18_SimpleRetriesOnly ==
    pure.op = "downloadPdf" =>
        /\ pure.attempt <= 3
        /\ \A k \in 1..Len(pure.requests) :
              LET r == pure.requests[k]
              IN /\ (r.error /\ r.attempt < 3) =>
                       /\ Len(pure.slept) >= r.attempt
                       /\ pure.slept[r.attempt] = 1000 * r.attempt
                       /\ pure.attempt > r.attempt \/ pure.pc = "sleep"
                 /\ (r.error /\ r.attempt = 3) => pure.promise = "rejected"
                 /\ (~r.redirected /\ ~r.error /\ r.status \notin {200, 301, 302, 307, 308}) =>
                       /\ pure.promise = "rejected"
                       /\ k = Len(pure.requests)
                       /\ pure.is404 <=> (r.status = 404)
        /\ pure.settles <= 1
        /\ (pure.pc = "settled") <=> (pure.promise # "pending")

\* C19: fetchUrl always settles: it makes at most 6 requests (5 redirects
\* followed), rejects with 'Too many redirects' exactly when a sixth redirect
\* arrives, rejects with an HTTP error on a final status other than 200 and
\* resolves with the page's body on a 200.
C19_Settled ==
    /\ Len(pure.urls) <= 6
    /\ pure.depth = Len(pure.urls) - 1 \/ (pure.depth = 6 /\ Len(pure.urls) = 6)
    /\ (pure.error = "Too many redirects") <=> (pure.depth = 6)
    /\ pure.pc = "settled" =>
          /\ pure.status \in RedirectStatuses =>
                pure.promise = "rejected" /\ pure.error = "Too many redirects"
          /\ pure.status \notin (RedirectStatuses \cup {0, 200}) =>
                pure.promise = "rejected" /\ pure.error = "HTTP"
          /\ pure.status = 200 =>
                /\ pure.promise = "resolved"
                /\ pure.value = PageBody(pure.urls[Len(pure.urls)])
          /\ pure.promise = "resolved" => pure.status = 200

C19_FetchUrlTerminates ==
    /\ [](pure.op = "fetchUrl" => C19_Settled)
    /\ <>(pure.op = "fetchUrl" => pure.pc = "settled")

\* five redirects through a cycle of two pages, then the page itself
C19_Witness ==
    /\ pure.op = "fetchUrl" /\ pure.promise = "resolved" /\ Len(pure.urls) = 6
    /\ pure.urls[1] = pure.urls[3] /\ pure.urls[1] # pure.urls[2]

\* C20: the URL ingest scrapes, chunks, embeds and inserts in that order; when
\* scrapePage returns a page with an error or with empty markdown, no row is
\* written, the browser is closed and the exit status is 1; a returned page
\* with an error has empty markdown and an empty hash.
C20_NoRowWithoutExtraction ==
    (pure.op = "ingest" /\ pure.scraped) =>
        /\ pure.pageData.error # "" =>
              pure.pageData.markdown = << >> /\ pure.pageData.hash = << >>
        /\ (pure.pageData.error # "" \/ pure.pageData.markdown = << >>) =>
              /\ db = EmptyDb
              /\ pure.pc \in {"closing", "exited"}
              /\ pure.pc = "exited" => (pure.exitCode = 1 /\ ~pure.browser)
        /\ pure.stages[1] = "scrape"
        /\ \A k \in 2..Len(pure.stages) :
              /\ pure.stages[k] = "chunk" => k = 2
              /\ pure.stages[k] = "embed" => (k > 2 /\ pure.stages[2] = "chunk")
              /\ pure.stages[k] = "insert" => pure.stages[k - 1] = "embed"
        /\ Cardinality(Rowids(db.chunks)) =
              Cardinality({ k \in 1..Len(pure.stages) : pure.stages[k] = "insert" })
        /\ Rowids(db.vec_chunks) = Rowids(db.chunks)

\* a page without content, scraped with the browser
C20_Witness ==
    /\ pure.op = "ingest" /\ pure.pc = "exited" /\ pure.exitCode = 1
    /\ pure.pageData.error = "No content found on page"

\* C21: the current download script writes the rows of one PDF all or nothing,
\* after all its embeddings are computed: in every state a source
\* file://sfdc-official/<file> has no chunk row or all its ceil(L/700) chunk
\* rows, each with its embedding, so a source that a later run skips as
\* already indexed is completely indexed.
C21_AllOrNothing ==
    (pure.op = "download" /\ pure.script = "current") =>
        /\ Rowids(db.vec_chunks) = Rowids(db.chunks)
        /\ \A i \in 1..Len(PDFS) :
              LET n == CountSource(db, SfdcUri(PDFS[i]))
                  all == (SfdcTextLen(PDFS[i]) + 699) \div 700
              IN /\ n \in {0, all}
                 /\ (pure.pc = "embed" /\ pure.i + 1 = i) => n = 0
                 /\ SfdcUri(PDFS[i]) \in pure.existingSources => n = all

\* the second run has skipped the two-chunk PDF and is embedding the next one,
\* of which no row is written yet
C21_Witness ==
    /\ pure.op = "download" /\ pure.script = "current" /\ pure.run = 2
    /\ pure.pc = "embed" /\ pure.i = 1 /\ pure.skipped = 1
    /\ CountSource(db, SfdcUri(PDFS[1])) = 2 /\ CountSource(db, SfdcUri(PDFS[2])) = 0

\* C22: two add_pdf_to_index calls for the same file that are in flight at the
\* same time never index the file twice: when both have completed, the source
\* has as many chunk rows as one indexing of the file writes.
C22_NeverIndexedTwice ==
    (/\ client = "two_adds"
     /\ response.tool = "add_pdf_to_index" /\ response.kind = "indexed"
     /\ \A c \in Calls : Free(c)) =>
        CountSource(db, response.localUri) = Len(ChunkListOf(response.args.file_path.s))

\* C23: a delete_source(S, confirm = true) that runs while an add_pdf_to_index
\* producing S is still embedding never leaves S partially indexed: when both
\* have completed, S has no chunk row or all the chunk rows of the file.
C23_NeverPartiallyIndexed ==
    (/\ client = "add_delete"
     /\ response.tool = "add_pdf_to_index" /\ response.kind = "indexed"
     /\ \A c \in Calls : Free(c)) =>
        CountSource(db, response.localUri)
            \in {0, Len(ChunkListOf(response.args.file_path.s))}

\* C24: in chunkMarkdown the text carried from a finished chunk into the next
\* one is the last min(overlap, length) characters of the finished chunk, so
\* at most overlap characters, for every overlap >= 0; with overlap = 0
\* nothing is carried over.
C24_CarryAtMostOverlap ==
    (pure.op = "chunkMarkdown" /\ pure.done) =>
        \A j \in 1..Len(pure.carried) :
            /\ Len(pure.carried[j].text) <= pure.overlap
            /\ pure.carried[j].text = LastChars(pure.carried[j].from, pure.overlap)

\* a text of three windows whose last window is shorter than the overlap, so
\* that the second window is cut at the end of the text
C3_Witness ==
    /\ pure.op = "fixedWindows" /\ pure.done
    /\ Len(pure.chunks) = 3
    /\ Len(pure.chunks[2]) < 800
    /\ Len(pure.chunks[3]) \in 1..99

====
